---- MODULE Spec2Model ----
(***************************************************************************)
(* State-machine model of etl/pipeline.py (ETLPipeline, PipelineStats)     *)
(* and of the DataTransformer operations it delegates to                   *)
(* (etl/transformers/data_transformer.py).                                 *)
(*                                                                         *)
(* A DataFrame is a record [present, columns, dtypes, rows]: `columns' is  *)
(* the sequence of column labels (labels may repeat, as in pandas),        *)
(* `dtypes' the dtype of each column and `rows' the sequence of rows, each *)
(* row a sequence of cells aligned with `columns'.  present = FALSE is     *)
(* Python's None.  A cell is a rational <<num, den>> in lowest terms with  *)
(* den > 0; NaN (the missing value) is <<0, 0>>.                           *)
(***************************************************************************)
EXTENDS Integers, Sequences, FiniteSets, TLC

VARIABLES
  df,        \* ETLPipeline.df
  stats,     \* ETLPipeline.stats
  last,      \* the call made last and how it ended
  calls,     \* number of method calls made on the pipeline
  nSuccess,  \* history: transformation calls that returned normally
  dupSum,    \* history: rows removed by all remove_duplicates calls
  mvhSum     \* history: rows removed by all handle_missing_values calls

vars == <<df, stats, last, calls, nSuccess, dupSum, mvhSum>>

(***************************************************************************)
(* Bounds of the model.                                                    *)
(***************************************************************************)
\* largest number of rows of an extracted file
MaxRows == 2
\* number of method calls made on one pipeline
MaxCalls == 3
\* the standard deviation and the z-scores are rounded to 1/Precision
Precision == 100

(***************************************************************************)
(* Cells.                                                                  *)
(***************************************************************************)
NaN == <<0, 0>>

IsNaN(c) == c[2] = 0

Abs(n) == IF n < 0 THEN -n ELSE n

RECURSIVE GCD(_, _)
GCD(a, b) == IF b = 0 THEN a ELSE GCD(b, a % b)

\* the rational n/d (d # 0) in lowest terms with a positive denominator
Rat(n, d) ==
  LET g == GCD(Abs(n), Abs(d))
      s == IF d < 0 THEN -1 ELSE 1
  IN  <<(s * n) \div g, Abs(d) \div g>>

Num(n) == <<n, 1>>

\* a < b, a = b on non-missing cells
Less(a, b) == a[1] * b[2] < b[1] * a[2]

Sub(a, b) == Rat(a[1] * b[2] - b[1] * a[2], a[2] * b[2])

Add(a, b) == Rat(a[1] * b[2] + b[1] * a[2], a[2] * b[2])

Mul(a, b) == Rat(a[1] * b[1], a[2] * b[2])

\* a / b for b # 0
Div(a, b) == Rat(a[1] * b[2], a[2] * b[1])

(***************************************************************************)
(* DataFrames.                                                             *)
(***************************************************************************)
NoTable == [present |-> FALSE, columns |-> <<>>, dtypes |-> <<>>, rows |-> <<>>]

Table(cols, dts, rws) ==
  [present |-> TRUE, columns |-> cols, dtypes |-> dts, rows |-> rws]

Range(s) == {s[i] : i \in 1..Len(s)}

\* len(df): the length of the index
len(t) == Len(t.rows)

\* DataFrame.empty: some axis has length 0
empty(t) == Len(t.rows) = 0 \/ Len(t.columns) = 0

\* positions of the columns labelled name
ColIdx(t, name) == {j \in 1..Len(t.columns) : t.columns[j] = name}

\* the rows of t at the positions in keepSet, in their order
KeepRows(rws, keepSet) ==
  LET F[i \in 0..Len(rws)] ==
        IF i = 0 THEN <<>>
        ELSE IF i \in keepSet THEN Append(F[i - 1], rws[i]) ELSE F[i - 1]
  IN  F[Len(rws)]

\* result of a call: exc = "" is a normal return of df
Ok(t) == [exc |-> "", df |-> t]

Raise(e, t) == [exc |-> e, df |-> t]

(***************************************************************************)
(* Files handed to extract: the column labels and cells of the files.      *)
(***************************************************************************)
ColNames == <<"a", "b">>

\* cells of column a and of column b
Values == <<{NaN, Num(1), Num(2)}, {NaN, Num(1)}>>

FileRows == {r \in [1..Len(ColNames) -> UNION Range(Values)] :
               \A j \in 1..Len(ColNames) : r[j] \in Values[j]}

\* dtype inference of the reader: a column with a missing cell is float64
InferDtypes(rws) ==
  [j \in 1..Len(ColNames) |->
     IF Len(rws) = 0 THEN "object"
     ELSE IF \E i \in 1..Len(rws) : IsNaN(rws[i][j]) THEN "float64"
     ELSE "int64"]

ExtractTables ==
  {Table(ColNames, InferDtypes(rws), rws) :
     rws \in UNION {[1..n -> FileRows] : n \in 0..MaxRows}}

(***************************************************************************)
(* DataTransformer.remove_duplicates                                       *)
(***************************************************************************)
KeepValues == {"first", "last", "False", "bogus"}

\* subset = None is [none |-> TRUE]; otherwise the list of labels
Subsets ==
  {[none |-> TRUE, cols |-> <<>>], [none |-> FALSE, cols |-> <<"a">>],
   [none |-> FALSE, cols |-> <<"b">>], [none |-> FALSE, cols |-> <<"a", "b">>],
   [none |-> FALSE, cols |-> <<"zz">>]}

\* DataFrame.drop_duplicates(subset=subset, keep=keep)
\* removes only the first duplicated row it meets
drop_duplicates_once(t, subset, keep) ==
  LET names == IF subset.none THEN Range(t.columns) ELSE Range(subset.cols)
      idx   == {j \in 1..Len(t.columns) : t.columns[j] \in names}
      Key(i) == [j \in idx |-> t.rows[i][j]]
      Seen(i) == \E k \in 1..(i - 1) : Key(k) = Key(i)
      Dup(i) == Seen(i) /\ \A m \in 1..(i - 1) : ~Seen(m)
  IN  IF empty(t) THEN Ok(t)
      ELSE IF names \ Range(t.columns) # {} THEN Raise("KeyError", t)
      ELSE IF keep \notin {"first", "last", "False"} THEN Raise("ValueError", t)
      ELSE Ok([t EXCEPT !.rows =
                 KeepRows(t.rows, {i \in 1..Len(t.rows) : ~Dup(i)})])

drop_duplicates(t, subset, keep) ==
  LET names == IF subset.none THEN Range(t.columns) ELSE Range(subset.cols)
      idx   == {j \in 1..Len(t.columns) : t.columns[j] \in names}
      Key(i) == [j \in idx |-> t.rows[i][j]]
      Dup(i) ==
        CASE keep = "first" -> \E k \in 1..(i - 1) : Key(k) = Key(i)
          [] keep = "last"  -> \E k \in (i + 1)..Len(t.rows) : Key(k) = Key(i)
          [] OTHER          -> \E k \in 1..Len(t.rows) : k # i /\ Key(k) = Key(i)
  IN  IF empty(t) THEN Ok(t)
      ELSE IF names \ Range(t.columns) # {} THEN Raise("KeyError", t)
      ELSE IF keep \notin {"first", "last", "False"} THEN Raise("ValueError", t)
      ELSE Ok([t EXCEPT !.rows =
                 KeepRows(t.rows, {i \in 1..Len(t.rows) : ~Dup(i)})])

\* variant: keep is not handed on to drop_duplicates
T_remove_duplicates_default(t, subset, keep) == drop_duplicates(t, subset, "first")

T_remove_duplicates(t, subset, keep) == drop_duplicates(t, subset, keep)

(***************************************************************************)
(* DataTransformer.handle_missing_values                                   *)
(***************************************************************************)
Strategies == {"drop", "fill", "forward_fill", "backward_fill", "bogus"}

\* fill_value: None is [none |-> TRUE]
FillValues == {[none |-> TRUE, v |-> NaN], [none |-> FALSE, v |-> Num(0)]}

\* df.isnull().sum().sum()
missing_count(t) ==
  Cardinality({<<i, j>> \in (1..Len(t.rows)) \X (1..Len(t.columns)) :
                 IsNaN(t.rows[i][j])})

RowHasNaN(r) == \E j \in 1..Len(r) : IsNaN(r[j])

\* dropna(how="all")
dropna_all(t) ==
  [t EXCEPT !.rows =
     KeepRows(t.rows, {i \in 1..Len(t.rows) :
                         \E j \in 1..Len(t.columns) : ~IsNaN(t.rows[i][j])})]

dropna(t) ==
  [t EXCEPT !.rows = KeepRows(t.rows, {i \in 1..Len(t.rows) : ~RowHasNaN(t.rows[i])})]

fillna(t, v) ==
  [t EXCEPT !.rows =
     [i \in 1..Len(t.rows) |->
        [j \in 1..Len(t.columns) |->
           IF IsNaN(t.rows[i][j]) THEN v ELSE t.rows[i][j]]]]

\* nearest non-missing cell of column j above row i (NaN when there is none)
RECURSIVE Above(_, _, _)
Above(t, i, j) ==
  IF i = 0 THEN NaN
  ELSE IF ~IsNaN(t.rows[i][j]) THEN t.rows[i][j] ELSE Above(t, i - 1, j)

RECURSIVE Below(_, _, _)
Below(t, i, j) ==
  IF i > Len(t.rows) THEN NaN
  ELSE IF ~IsNaN(t.rows[i][j]) THEN t.rows[i][j] ELSE Below(t, i + 1, j)

\* variant: ffill(limit=1), only the cell right above is used
ffill_limit(t) ==
  [t EXCEPT !.rows =
     [i \in 1..Len(t.rows) |->
        [j \in 1..Len(t.columns) |->
           IF IsNaN(t.rows[i][j]) /\ i > 1 THEN t.rows[i - 1][j] ELSE t.rows[i][j]]]]

ffill(t) ==
  [t EXCEPT !.rows =
     [i \in 1..Len(t.rows) |-> [j \in 1..Len(t.columns) |-> Above(t, i, j)]]]

bfill(t) ==
  [t EXCEPT !.rows =
     [i \in 1..Len(t.rows) |-> [j \in 1..Len(t.columns) |-> Below(t, i, j)]]]

T_handle_missing_values(t, strategy, fill_value) ==
  IF missing_count(t) = 0 THEN Ok(t)
  ELSE CASE strategy = "drop" -> Ok(dropna(t))
         [] strategy = "fill" ->
              IF fill_value.none THEN Raise("ValueError", t)
              ELSE Ok(fillna(t, fill_value.v))
         [] strategy = "forward_fill" -> Ok(ffill(t))
         [] strategy = "backward_fill" -> Ok(bfill(t))
         [] OTHER -> Raise("ValueError", t)


(***************************************************************************)
(* DataTransformer.rename_columns                                          *)
(***************************************************************************)
\* mapping {old: new} as the sequence of its items
Mappings ==
  {<< <<"a", "c">> >>, << <<"a", "b">> >>, << <<"zz", "q">> >>}

\* mapping.get(label, label)
Renamed(mapping, label) ==
  IF \E k \in 1..Len(mapping) : mapping[k][1] = label
  THEN mapping[CHOOSE k \in 1..Len(mapping) : mapping[k][1] = label][2]
  ELSE label

\* DataFrame.rename(columns=mapping): every label is looked up once
T_rename_columns(t, mapping) ==
  Ok([t EXCEPT !.columns =
        [j \in 1..Len(t.columns) |-> Renamed(mapping, t.columns[j])]])

(***************************************************************************)
(* DataTransformer.select_columns                                          *)
(***************************************************************************)
ColumnLists == {<<"a">>, <<"b", "a">>, <<"a", "zz">>, <<"a", "a">>, <<>>}

\* positions selected by df[[col for col in columns if col in df.columns]]:
\* every requested label in turn, each with all the columns that carry it
RECURSIVE Positions(_, _)
Positions(t, columns) ==
  IF columns = <<>> THEN <<>>
  ELSE LET here == {j \in 1..Len(t.columns) : t.columns[j] = Head(columns)}
           asSeq == KeepRows([j \in 1..Len(t.columns) |-> j], here)
       IN  asSeq \o Positions(t, Tail(columns))

\* projection of t on a sequence of column positions
Project(t, pos) ==
  [t EXCEPT !.columns = [k \in 1..Len(pos) |-> t.columns[pos[k]]],
            !.dtypes  = [k \in 1..Len(pos) |-> t.dtypes[pos[k]]],
            !.rows    = [i \in 1..Len(t.rows) |->
                           [k \in 1..Len(pos) |-> t.rows[i][pos[k]]]]]

\* variant: df.loc[:, df.columns.isin(columns)], the frame's own column order
T_select_columns_frame_order(t, columns) ==
  Ok(Project(t, KeepRows([j \in 1..Len(t.columns) |-> j],
                         {j \in 1..Len(t.columns) : t.columns[j] \in Range(columns)})))

T_select_columns(t, columns) == Ok(Project(t, Positions(t, columns)))

(***************************************************************************)
(* DataTransformer.filter_rows                                             *)
(***************************************************************************)
\* condition callables:
\*   "gt1"   lambda df: df.iloc[:, 0] > 1
\*   "notna" lambda df: df.notna().all(axis=1)
\*   "zz"    lambda df: df["zz"] > 1        (no column is labelled zz)
Conditions == {"gt1", "notna", "zz"}

\* the exception condition(df) raises, "" when it returns a boolean Series
ConditionExc(t, condition) ==
  CASE condition = "gt1" -> IF Len(t.columns) = 0 THEN "IndexError" ELSE ""
    [] condition = "notna" -> ""
    [] OTHER -> "KeyError"

\* the boolean the Series holds for row r
ConditionHolds(r, condition) ==
  CASE condition = "gt1" -> ~IsNaN(r[1]) /\ Less(Num(1), r[1])
    [] OTHER -> ~RowHasNaN(r)

\* variant: df[~condition(df)]
T_filter_rows_inverted(t, condition) ==
  IF ConditionExc(t, condition) # "" THEN Raise(ConditionExc(t, condition), t)
  ELSE Ok([t EXCEPT !.rows =
             KeepRows(t.rows, {i \in 1..Len(t.rows) :
                                 ~ConditionHolds(t.rows[i], condition)})])

T_filter_rows(t, condition) ==
  IF ConditionExc(t, condition) # "" THEN Raise(ConditionExc(t, condition), t)
  ELSE Ok([t EXCEPT !.rows =
             KeepRows(t.rows, {i \in 1..Len(t.rows) :
                                 ConditionHolds(t.rows[i], condition)})])

(***************************************************************************)
(* DataTransformer.convert_data_types                                      *)
(***************************************************************************)
\* dtype_mapping as the sequence of its items in insertion order
DtypeMappings ==
  {<< <<"a", "int">> >>, << <<"a", "float">> >>,
   << <<"a", "int">>, <<"b", "float">> >>,
   << <<"b", "bogus">> >>, << <<"zz", "int">> >>}

\* int(x): truncation towards zero
Trunc(c) == IF c[1] >= 0 THEN Num(c[1] \div c[2]) ELSE Num(-((-c[1]) \div c[2]))

\* df[column] = df[column].astype(dtype) with its own try/except:
\* int fails on a missing cell, an unknown dtype always fails
astype(t, column, dtype) ==
  LET idx == ColIdx(t, column)
      fails ==
        \/ dtype \notin {"int", "float"}
        \/ /\ dtype = "int"
           /\ \E i \in 1..Len(t.rows), j \in idx : IsNaN(t.rows[i][j])
  IN  IF idx = {} \/ fails THEN t
      ELSE [t EXCEPT
             !.dtypes = [j \in 1..Len(t.columns) |->
                           IF j \in idx
                           THEN (IF dtype = "int" THEN "int64" ELSE "float64")
                           ELSE t.dtypes[j]],
             !.rows = [i \in 1..Len(t.rows) |->
                         [j \in 1..Len(t.columns) |->
                            IF j \in idx /\ dtype = "int"
                            THEN Trunc(t.rows[i][j]) ELSE t.rows[i][j]]]]

RECURSIVE ConvertAll(_, _)
ConvertAll(t, items) ==
  IF items = <<>> THEN t
  ELSE ConvertAll(astype(t, Head(items)[1], Head(items)[2]), Tail(items))

\* variant without the inner try/except: the first failing column aborts the call
T_convert_data_types_abort(t, dtype_mapping) ==
  IF \E k \in 1..Len(dtype_mapping) :
       /\ ColIdx(t, dtype_mapping[k][1]) # {}
       /\ \/ dtype_mapping[k][2] \notin {"int", "float"}
          \/ /\ dtype_mapping[k][2] = "int"
             /\ \E i \in 1..Len(t.rows), j \in ColIdx(t, dtype_mapping[k][1]) :
                  IsNaN(t.rows[i][j])
  THEN Raise("ValueError", t)
  ELSE Ok(ConvertAll(t, dtype_mapping))

T_convert_data_types(t, dtype_mapping) == Ok(ConvertAll(t, dtype_mapping))

(***************************************************************************)
(* DataTransformer.normalize_column                                        *)
(***************************************************************************)
NormColumns == {"a", "zz"}

Methods == {"minmax", "zscore", "bogus"}

\* the non-missing cells of column j, as a sequence in row order
Present(t, j) ==
  LET F[i \in 0..Len(t.rows)] ==
        IF i = 0 THEN <<>>
        ELSE IF IsNaN(t.rows[i][j]) THEN F[i - 1]
        ELSE Append(F[i - 1], t.rows[i][j])
  IN  F[Len(t.rows)]

\* Series.min() / Series.max() skip missing cells; NaN when none is left
Min(s) ==
  IF s = <<>> THEN NaN
  ELSE CHOOSE x \in Range(s) : \A y \in Range(s) : ~Less(y, x)

Max(s) ==
  IF s = <<>> THEN NaN
  ELSE CHOOSE x \in Range(s) : \A y \in Range(s) : ~Less(x, y)

RECURSIVE Sum(_)
Sum(s) == IF s = <<>> THEN Num(0) ELSE Add(Head(s), Sum(Tail(s)))

\* Series.mean() skips missing cells; NaN when none is left
Mean(s) == IF s = <<>> THEN NaN ELSE Div(Sum(s), Num(Len(s)))

RECURSIVE ISqrt(_)
ISqrt(n) ==
  IF n < 2 THEN n
  ELSE LET s == 2 * ISqrt(n \div 4)
       IN  IF (s + 1) * (s + 1) <= n THEN s + 1 ELSE s

\* q rounded to the nearest multiple of 1/Precision, in units of 1/Precision
Units(q) == (2 * q[1] * Precision + q[2]) \div (2 * q[2])

Round(q) == Rat(Units(q), Precision)

\* square root of a positive rational, to 1/Precision
Sqrt(q) ==
  LET r == ISqrt(Units(q) * Precision)
  IN  Rat(IF r = 0 THEN 1 ELSE r, Precision)

\* Series.var() (ddof = 1) of at least two non-missing cells
Var(s) ==
  LET m == Mean(s)
      sq == [k \in 1..Len(s) |-> Mul(Sub(s[k], m), Sub(s[k], m))]
  IN  Div(Sum(sq), Num(Len(s) - 1))

\* df[column] = value: every column labelled column gets cells and dtype
SetColumn(t, j, cells, dtype) ==
  [t EXCEPT !.dtypes = [k \in 1..Len(t.columns) |->
                          IF k = j THEN dtype ELSE t.dtypes[k]],
            !.rows = [i \in 1..Len(t.rows) |->
                        [k \in 1..Len(t.columns) |->
                           IF k = j THEN cells[i] ELSE t.rows[i][k]]]]

\* dtype of the quotient column
FloatOf(dtype) == IF dtype = "object" THEN "object" ELSE "float64"

Zeros(t) == [i \in 1..Len(t.rows) |-> Num(0)]

NaNs(t) == [i \in 1..Len(t.rows) |-> NaN]

\* variant: the quotient is taken over max instead of max - min
scaled_by_max(v, min_val, max_val) == Div(Sub(v, min_val), max_val)

\* (df[column] - min_val) / (max_val - min_val) for one cell
scaled(v, min_val, max_val) == Div(Sub(v, min_val), Sub(max_val, min_val))

\* variant without the max == min guard: 0/0 is a missing value
minmax_unguarded(t, j) ==
  LET s == Present(t, j)
      min_val == Min(s)
      max_val == Max(s)
  IN  IF s = <<>> \/ max_val = min_val
      THEN SetColumn(t, j, NaNs(t), FloatOf(t.dtypes[j]))
      ELSE SetColumn(t, j,
             [i \in 1..Len(t.rows) |->
                IF IsNaN(t.rows[i][j]) THEN NaN
                ELSE scaled(t.rows[i][j], min_val, max_val)],
             "float64")

minmax(t, j) ==
  LET s == Present(t, j)
      min_val == Min(s)
      max_val == Max(s)
  IN  IF s # <<>> /\ max_val = min_val
      THEN SetColumn(t, j, Zeros(t), "int64")
      ELSE IF s = <<>> THEN SetColumn(t, j, NaNs(t), FloatOf(t.dtypes[j]))
      ELSE SetColumn(t, j,
             [i \in 1..Len(t.rows) |->
                IF IsNaN(t.rows[i][j]) THEN NaN
                ELSE scaled(t.rows[i][j], min_val, max_val)],
             "float64")

zscore(t, j) ==
  LET s == Present(t, j)
      mean == Mean(s)
  IN  IF Len(s) < 2 THEN SetColumn(t, j, NaNs(t), FloatOf(t.dtypes[j]))
      ELSE IF Var(s) = Num(0) THEN SetColumn(t, j, Zeros(t), "int64")
      ELSE SetColumn(t, j,
             [i \in 1..Len(t.rows) |->
                IF IsNaN(t.rows[i][j]) THEN NaN
                ELSE Round(Div(Sub(t.rows[i][j], mean), Sqrt(Var(s))))],
             "float64")

\* variant: the column is assigned before the method name is checked
T_normalize_column_early(t, column, method) ==
  LET idx == ColIdx(t, column) IN
  IF idx = {} THEN Ok(t)
  ELSE IF Cardinality(idx) > 1 THEN Raise("ValueError", t)
  ELSE LET j == CHOOSE k \in idx : TRUE
       IN  IF method = "zscore" THEN Ok(zscore(t, j))
           ELSE IF method = "minmax" THEN Ok(minmax(t, j))
           ELSE Raise("ValueError", minmax(t, j))

\* a label carried by several columns selects a DataFrame, whose min/max/std
\* are Series: the test `max_val == min_val' / `std == 0' raises ValueError
T_normalize_column(t, column, method) ==
  LET idx == ColIdx(t, column) IN
  IF idx = {} THEN Ok(t)
  ELSE IF method \notin {"minmax", "zscore"} THEN Raise("ValueError", t)
  ELSE IF Cardinality(idx) > 1 THEN Raise("ValueError", t)
  ELSE LET j == CHOOSE k \in idx : TRUE
       IN  IF method = "minmax" THEN Ok(minmax(t, j)) ELSE Ok(zscore(t, j))

(***************************************************************************)
(* DataTransformer.add_calculated_column                                   *)
(***************************************************************************)
NewColumns == {"c", "a"}

\* row functions:
\*   "count" lambda row: row.count()   (number of non-missing cells)
\*   "zz"    lambda row: row["zz"]     (raises KeyError on every row)
Funcs == {"count", "zz"}

RowCount(r) == Num(Cardinality({j \in 1..Len(r) : ~IsNaN(r[j])}))

\* df[column_name] = cells: replaces the columns labelled column_name,
\* appends a new column when there is none
Assign(t, column_name, cells, dtype) ==
  IF ColIdx(t, column_name) = {}
  THEN [t EXCEPT !.columns = Append(@, column_name),
                 !.dtypes = Append(@, dtype),
                 !.rows = [i \in 1..Len(t.rows) |-> Append(t.rows[i], cells[i])]]
  ELSE [t EXCEPT !.dtypes = [k \in 1..Len(t.columns) |->
                               IF t.columns[k] = column_name THEN dtype
                               ELSE t.dtypes[k]],
                 !.rows = [i \in 1..Len(t.rows) |->
                             [k \in 1..Len(t.columns) |->
                                IF t.columns[k] = column_name THEN cells[i]
                                ELSE t.rows[i][k]]]]

\* The set of results of df[column_name] = df.apply(func, axis=1).
\* On an empty DataFrame apply() does not run func on the rows: depending on
\* the pandas release it yields the value of func on an empty row for every
\* index entry, a NaN for every index entry, or a copy of the frame, which
\* the assignment rejects.
T_add_calculated_column(t, column_name, func) ==
  IF empty(t)
  THEN {Ok(Assign(t, column_name, NaNs(t), "float64")),
        Raise("ValueError", t)}
       \cup (IF func = "count"
             THEN {Ok(Assign(t, column_name, Zeros(t), "int64"))} ELSE {})
  ELSE IF func = "count"
       THEN {Ok(Assign(t, column_name,
                       [i \in 1..Len(t.rows) |-> RowCount(t.rows[i])], "int64"))}
       ELSE {Raise("KeyError", t)}

(***************************************************************************)
(* DataTransformer.aggregate_data                                          *)
(***************************************************************************)
GroupBys == {<<"a">>, <<"zz">>}

\* agg_func {column: function} as the sequence of its items
AggFuncs ==
  {<< <<"b", "sum">> >>, << <<"b", "count">> >>, << <<"b", "mean">> >>,
   << <<"zz", "sum">> >>, << <<"b", "bogus">> >>}

\* the cells of S as an ascending sequence
RECURSIVE SortedSet(_)
SortedSet(S) ==
  IF S = {} THEN <<>>
  ELSE LET m == CHOOSE x \in S : \A y \in S : ~Less(y, x)
       IN  <<m>> \o SortedSet(S \ {m})

\* one aggregate over the cells of column j in the rows of `members'
Aggregate(t, members, j, fn) ==
  LET sub == [t EXCEPT !.rows = KeepRows(t.rows, members)]
      s == Present(sub, j)
  IN  CASE fn = "sum" -> Sum(s)
        [] fn = "count" -> Num(Len(s))
        [] OTHER -> Mean(s)

AggDtype(dtype, fn) ==
  CASE fn = "count" -> "int64"
    [] fn = "mean" -> "float64"
    [] OTHER -> dtype

\* df.groupby(group_by).agg(agg_func).reset_index() for a single key column:
\* rows with a missing key are left out (dropna=True) and the keys are
\* sorted (sort=True)
T_aggregate_data(t, group_by, agg_func) ==
  LET kidx == ColIdx(t, group_by[1])
      aidx == [k \in 1..Len(agg_func) |-> ColIdx(t, agg_func[k][1])]
  IN  IF kidx = {} THEN Raise("KeyError", t)
      ELSE IF Cardinality(kidx) > 1 THEN Raise("ValueError", t)
      ELSE IF \E k \in 1..Len(agg_func) : aidx[k] = {} THEN Raise("KeyError", t)
      ELSE IF \E k \in 1..Len(agg_func) :
                agg_func[k][2] \notin {"sum", "count", "mean"}
           THEN Raise("AttributeError", t)
      ELSE IF \E k \in 1..Len(agg_func) : Cardinality(aidx[k]) > 1
           THEN Raise("ValueError", t)
      ELSE LET kj == CHOOSE j \in kidx : TRUE
               aj == [k \in 1..Len(agg_func) |-> CHOOSE j \in aidx[k] : TRUE]
               keys == SortedSet({t.rows[i][kj] : i \in 1..Len(t.rows)} \ {NaN})
               Members(key) == {i \in 1..Len(t.rows) : t.rows[i][kj] = key}
           IN  Ok(Table(
                 <<group_by[1]>> \o [k \in 1..Len(agg_func) |-> agg_func[k][1]],
                 <<t.dtypes[kj]>> \o
                   [k \in 1..Len(agg_func) |->
                      AggDtype(t.dtypes[aj[k]], agg_func[k][2])],
                 [g \in 1..Len(keys) |->
                    <<keys[g]>> \o
                      [k \in 1..Len(agg_func) |->
                         Aggregate(t, Members(keys[g]), aj[k], agg_func[k][2])]]))

(***************************************************************************)
(* DataExtractor.extract and DataLoader.load: the files                    *)
(***************************************************************************)
\* a file handed to extract: whether it exists, its format, whether the
\* reader can parse it and the DataFrame the reader builds from it
Sources ==
  {[exists |-> FALSE, file_type |-> "csv", readable |-> TRUE, content |-> NoTable],
   [exists |-> TRUE, file_type |-> "txt", readable |-> TRUE, content |-> NoTable],
   [exists |-> TRUE, file_type |-> "csv", readable |-> FALSE, content |-> NoTable]}
  \cup {[exists |-> TRUE, file_type |-> "csv", readable |-> TRUE, content |-> t] :
          t \in ExtractTables}

SUPPORTED == {"csv", "json", "xlsx", "xls", "excel", "parquet"}

\* variant: a file the reader cannot parse yields no DataFrame and no error
E_extract_silent(src) ==
  IF ~src.exists THEN Raise("FileNotFoundError", NoTable)
  ELSE IF src.file_type \notin SUPPORTED THEN Raise("ValueError", NoTable)
  ELSE Ok(src.content)

\* DataExtractor.extract
E_extract(src) ==
  IF ~src.exists THEN Raise("FileNotFoundError", NoTable)
  ELSE IF src.file_type \notin SUPPORTED THEN Raise("ValueError", NoTable)
  ELSE IF ~src.readable THEN Raise("ParserError", NoTable)
  ELSE Ok(src.content)

\* a destination handed to load or save_stats
Targets == {[file_type |-> f, writable |-> w] : f \in {"csv", "txt"}, w \in BOOLEAN}

\* DataLoader.load: the exception raised, "" when the file is written
L_load(t, target) ==
  IF target.file_type \notin SUPPORTED THEN "ValueError"
  ELSE IF ~target.writable THEN "OSError"
  ELSE ""

(***************************************************************************)
(* PipelineStats and ETLPipeline                                           *)
(***************************************************************************)
PipelineStats ==
  [total_records |-> 0, valid_records |-> 0, invalid_records |-> 0,
   duplicates_removed |-> 0, missing_values_handled |-> 0,
   transformations_applied |-> 0, execution_time |-> 0,
   start_time |-> "", end_time |-> "", status |-> "pending"]

\* a call: the method, the exception it raised ("" when it returned) and
\* the arguments that select its branch
Call(op, exc, a1, a2) == [op |-> op, exc |-> exc, a1 |-> a1, a2 |-> a2]

\* ETLPipeline.__init__
Init ==
  /\ df = NoTable
  /\ stats = PipelineStats
  /\ last = Call("__init__", "", "", "")
  /\ calls = 0
  /\ nSuccess = 0
  /\ dupSum = 0
  /\ mvhSum = 0

\* the call raises: nothing is assigned
Raised(op, exc, a1, a2) ==
  /\ last' = Call(op, exc, a1, a2)
  /\ calls' = calls + 1
  /\ UNCHANGED <<df, stats, nSuccess, dupSum, mvhSum>>

\* the call raises inside a transformer that assigns into the DataFrame it
\* was handed, which is self.df itself: frame is that DataFrame at the raise
RaisedInPlace(op, exc, frame, a1, a2) ==
  /\ df' = frame
  /\ last' = Call(op, exc, a1, a2)
  /\ calls' = calls + 1
  /\ UNCHANGED <<stats, nSuccess, dupSum, mvhSum>>

\* variant: a successful extract starts from fresh PipelineStats
extract_fresh_stats(src) ==
  /\ calls < MaxCalls
  /\ LET r == E_extract(src) IN
     IF r.exc = ""
     THEN /\ df' = r.df
          /\ stats' = [PipelineStats EXCEPT !.total_records = len(r.df)]
          /\ last' = Call("extract", "", "", "")
          /\ calls' = calls + 1
          /\ UNCHANGED <<nSuccess, dupSum, mvhSum>>
     ELSE Raised("extract", r.exc, "", "")

extract(src) ==
  /\ calls < MaxCalls
  /\ LET r == E_extract(src) IN
     IF r.exc = ""
     THEN /\ df' = r.df
          /\ stats' = [stats EXCEPT !.total_records = len(r.df)]
          /\ last' = Call("extract", "", "", "")
          /\ calls' = calls + 1
          /\ UNCHANGED <<nSuccess, dupSum, mvhSum>>
     ELSE Raised("extract", r.exc, "", "")

\* variant: initial_count is read after the DataFrame was replaced
remove_duplicates_late(subset, keep) ==
  /\ calls < MaxCalls
  /\ IF ~df.present THEN Raised("remove_duplicates", "ValueError", keep, "")
     ELSE LET r == T_remove_duplicates(df, subset, keep)
              initial_count == len(r.df)
          IN  IF r.exc # "" THEN Raised("remove_duplicates", r.exc, keep, "")
              ELSE /\ df' = r.df
                   /\ stats' = [stats EXCEPT
                        !.duplicates_removed = initial_count - len(r.df),
                        !.transformations_applied = @ + 1]
                   /\ last' = Call("remove_duplicates", "", keep, "")
                   /\ calls' = calls + 1
                   /\ nSuccess' = nSuccess + 1
                   /\ dupSum' = dupSum + (len(df) - len(r.df))
                   /\ UNCHANGED mvhSum

remove_duplicates(subset, keep) ==
  /\ calls < MaxCalls
  /\ IF ~df.present THEN Raised("remove_duplicates", "ValueError", keep, "")
     ELSE LET initial_count == len(df)
              r == T_remove_duplicates(df, subset, keep)
          IN  IF r.exc # "" THEN Raised("remove_duplicates", r.exc, keep, "")
              ELSE /\ df' = r.df
                   /\ stats' = [stats EXCEPT
                        !.duplicates_removed = initial_count - len(r.df),
                        !.transformations_applied = @ + 1]
                   /\ last' = Call("remove_duplicates", "", keep, "")
                   /\ calls' = calls + 1
                   /\ nSuccess' = nSuccess + 1
                   /\ dupSum' = dupSum + (initial_count - len(r.df))
                   /\ UNCHANGED mvhSum

\* variant: the number of missing cells is recorded
handle_missing_values_cells(strategy, fill_value) ==
  /\ calls < MaxCalls
  /\ IF ~df.present THEN Raised("handle_missing_values", "ValueError", strategy, "")
     ELSE LET initial_count == len(df)
              r == T_handle_missing_values(df, strategy, fill_value)
          IN  IF r.exc # "" THEN Raised("handle_missing_values", r.exc, strategy, "")
              ELSE /\ df' = r.df
                   /\ stats' = [stats EXCEPT
                        !.missing_values_handled = missing_count(df),
                        !.transformations_applied = @ + 1]
                   /\ last' = Call("handle_missing_values", "", strategy, "")
                   /\ calls' = calls + 1
                   /\ nSuccess' = nSuccess + 1
                   /\ mvhSum' = mvhSum + (initial_count - len(r.df))
                   /\ UNCHANGED dupSum

handle_missing_values(strategy, fill_value) ==
  /\ calls < MaxCalls
  /\ IF ~df.present THEN Raised("handle_missing_values", "ValueError", strategy, "")
     ELSE LET initial_count == len(df)
              r == T_handle_missing_values(df, strategy, fill_value)
          IN  IF r.exc # "" THEN Raised("handle_missing_values", r.exc, strategy, "")
              ELSE /\ df' = r.df
                   /\ stats' = [stats EXCEPT
                        !.missing_values_handled = initial_count - len(r.df),
                        !.transformations_applied = @ + 1]
                   /\ last' = Call("handle_missing_values", "", strategy, "")
                   /\ calls' = calls + 1
                   /\ nSuccess' = nSuccess + 1
                   /\ mvhSum' = mvhSum + (initial_count - len(r.df))
                   /\ UNCHANGED dupSum

\* variant: the call is not counted
rename_columns_uncounted(mapping) ==
  /\ calls < MaxCalls
  /\ IF ~df.present THEN Raised("rename_columns", "ValueError", "", "")
     ELSE LET r == T_rename_columns(df, mapping)
          IN  /\ df' = r.df
              /\ last' = Call("rename_columns", "", "", "")
              /\ calls' = calls + 1
              /\ nSuccess' = nSuccess + 1
              /\ UNCHANGED <<stats, dupSum, mvhSum>>

rename_columns(mapping) ==
  /\ calls < MaxCalls
  /\ IF ~df.present THEN Raised("rename_columns", "ValueError", "", "")
     ELSE LET r == T_rename_columns(df, mapping)
          IN  IF r.exc # "" THEN Raised("rename_columns", r.exc, "", "")
              ELSE /\ df' = r.df
                   /\ stats' = [stats EXCEPT !.transformations_applied = @ + 1]
                   /\ last' = Call("rename_columns", "", "", "")
                   /\ calls' = calls + 1
                   /\ nSuccess' = nSuccess + 1
                   /\ UNCHANGED <<dupSum, mvhSum>>

\* variant: the `self.df is None' test is missing
select_columns_unguarded(columns) ==
  /\ calls < MaxCalls
  /\ LET r == T_select_columns(df, columns)
     IN  /\ df' = r.df
         /\ stats' = [stats EXCEPT !.transformations_applied = @ + 1]
         /\ last' = Call("select_columns", "", "", "")
         /\ calls' = calls + 1
         /\ nSuccess' = nSuccess + 1
         /\ UNCHANGED <<dupSum, mvhSum>>

select_columns(columns) ==
  /\ calls < MaxCalls
  /\ IF ~df.present THEN Raised("select_columns", "ValueError", "", "")
     ELSE LET r == T_select_columns(df, columns)
          IN  IF r.exc # "" THEN Raised("select_columns", r.exc, "", "")
              ELSE /\ df' = r.df
                   /\ stats' = [stats EXCEPT !.transformations_applied = @ + 1]
                   /\ last' = Call("select_columns", "", "", "")
                   /\ calls' = calls + 1
                   /\ nSuccess' = nSuccess + 1
                   /\ UNCHANGED <<dupSum, mvhSum>>

\* variant: filter_rows brings total_records down to the rows that are left
filter_rows_recount(condition) ==
  /\ calls < MaxCalls
  /\ IF ~df.present THEN Raised("filter_rows", "ValueError", "", "")
     ELSE LET r == T_filter_rows(df, condition)
          IN  IF r.exc # "" THEN Raised("filter_rows", r.exc, "", "")
              ELSE /\ df' = r.df
                   /\ stats' = [stats EXCEPT !.transformations_applied = @ + 1,
                                             !.total_records = len(r.df)]
                   /\ last' = Call("filter_rows", "", "", "")
                   /\ calls' = calls + 1
                   /\ nSuccess' = nSuccess + 1
                   /\ UNCHANGED <<dupSum, mvhSum>>

filter_rows(condition) ==
  /\ calls < MaxCalls
  /\ IF ~df.present THEN Raised("filter_rows", "ValueError", "", "")
     ELSE LET r == T_filter_rows(df, condition)
          IN  IF r.exc # "" THEN Raised("filter_rows", r.exc, "", "")
              ELSE /\ df' = r.df
                   /\ stats' = [stats EXCEPT !.transformations_applied = @ + 1]
                   /\ last' = Call("filter_rows", "", "", "")
                   /\ calls' = calls + 1
                   /\ nSuccess' = nSuccess + 1
                   /\ UNCHANGED <<dupSum, mvhSum>>

convert_types(dtype_mapping) ==
  /\ calls < MaxCalls
  /\ IF ~df.present THEN Raised("convert_types", "ValueError", "", "")
     ELSE LET r == T_convert_data_types(df, dtype_mapping)
          IN  IF r.exc # "" THEN RaisedInPlace("convert_types", r.exc, r.df, "", "")
              ELSE /\ df' = r.df
                   /\ stats' = [stats EXCEPT !.transformations_applied = @ + 1]
                   /\ last' = Call("convert_types", "", "", "")
                   /\ calls' = calls + 1
                   /\ nSuccess' = nSuccess + 1
                   /\ UNCHANGED <<dupSum, mvhSum>>

normalize_column(column, method) ==
  /\ calls < MaxCalls
  /\ IF ~df.present THEN Raised("normalize_column", "ValueError", column, method)
     ELSE LET r == T_normalize_column(df, column, method)
          IN  IF r.exc # ""
              THEN RaisedInPlace("normalize_column", r.exc, r.df, column, method)
              ELSE /\ df' = r.df
                   /\ stats' = [stats EXCEPT !.transformations_applied = @ + 1]
                   /\ last' = Call("normalize_column", "", column, method)
                   /\ calls' = calls + 1
                   /\ nSuccess' = nSuccess + 1
                   /\ UNCHANGED <<dupSum, mvhSum>>

add_column(column_name, func) ==
  /\ calls < MaxCalls
  /\ IF ~df.present THEN Raised("add_column", "ValueError", "", "")
     ELSE \E r \in T_add_calculated_column(df, column_name, func) :
            IF r.exc # "" THEN RaisedInPlace("add_column", r.exc, r.df, "", "")
            ELSE /\ df' = r.df
                 /\ stats' = [stats EXCEPT !.transformations_applied = @ + 1]
                 /\ last' = Call("add_column", "", "", "")
                 /\ calls' = calls + 1
                 /\ nSuccess' = nSuccess + 1
                 /\ UNCHANGED <<dupSum, mvhSum>>

aggregate(group_by, agg_func) ==
  /\ calls < MaxCalls
  /\ IF ~df.present THEN Raised("aggregate", "ValueError", "", "")
     ELSE LET r == T_aggregate_data(df, group_by, agg_func)
          IN  IF r.exc # "" THEN Raised("aggregate", r.exc, "", "")
              ELSE /\ df' = r.df
                   /\ stats' = [stats EXCEPT !.transformations_applied = @ + 1]
                   /\ last' = Call("aggregate", "", "", "")
                   /\ calls' = calls + 1
                   /\ nSuccess' = nSuccess + 1
                   /\ UNCHANGED <<dupSum, mvhSum>>

\* variant: a load that wrote its file is counted as a transformation
load_counted(target) ==
  /\ calls < MaxCalls
  /\ IF ~df.present THEN Raised("load", "ValueError", "", "")
     ELSE IF L_load(df, target) # "" THEN Raised("load", L_load(df, target), "", "")
     ELSE /\ stats' = [stats EXCEPT !.transformations_applied = @ + 1]
          /\ last' = Call("load", "", "", "")
          /\ calls' = calls + 1
          /\ UNCHANGED <<df, nSuccess, dupSum, mvhSum>>

load(target) ==
  /\ calls < MaxCalls
  /\ IF ~df.present THEN Raised("load", "ValueError", "", "")
     ELSE Raised("load", L_load(df, target), "", "")

get_stats ==
  /\ calls < MaxCalls
  /\ last' = Call("get_stats", "", "", "")
  /\ calls' = calls + 1
  /\ UNCHANGED <<df, stats, nSuccess, dupSum, mvhSum>>

\* the write fails (OSError) or succeeds
save_stats(writable) ==
  /\ calls < MaxCalls
  /\ last' = Call("save_stats", IF writable THEN "" ELSE "OSError", "", "")
  /\ calls' = calls + 1
  /\ UNCHANGED <<df, stats, nSuccess, dupSum, mvhSum>>

\* datetime.now().isoformat()
Clock == {"t1", "t2"}

\* start_time: None is [none |-> TRUE]
StartTimes == {[none |-> TRUE, v |-> ""], [none |-> FALSE, v |-> "t0"]}

run(start_time, now) ==
  /\ calls < MaxCalls
  /\ stats' = [stats EXCEPT
       !.start_time = IF start_time.none THEN now ELSE start_time.v,
       !.status = "running"]
  /\ last' = Call("run", "", "", "")
  /\ calls' = calls + 1
  /\ UNCHANGED <<df, nSuccess, dupSum, mvhSum>>

\* execution_time: None is [none |-> TRUE]
ExecTimes == {[none |-> TRUE, v |-> 0], [none |-> FALSE, v |-> 5]}

\* variant: without a duration, execution_time goes back to 0
finish_reset(execution_time, now) ==
  /\ calls < MaxCalls
  /\ stats' = [stats EXCEPT
       !.end_time = now,
       !.status = "completed",
       !.execution_time = IF execution_time.none THEN 0 ELSE execution_time.v]
  /\ last' = Call("finish", "", "", "")
  /\ calls' = calls + 1
  /\ UNCHANGED <<df, nSuccess, dupSum, mvhSum>>

finish(execution_time, now) ==
  /\ calls < MaxCalls
  /\ stats' = [stats EXCEPT
       !.end_time = now,
       !.status = "completed",
       !.execution_time = IF execution_time.none THEN @ ELSE execution_time.v]
  /\ last' = Call("finish", "", "", "")
  /\ calls' = calls + 1
  /\ UNCHANGED <<df, nSuccess, dupSum, mvhSum>>

Next ==
  \/ \E src \in Sources : extract(src)
  \/ \E subset \in Subsets, keep \in KeepValues : remove_duplicates(subset, keep)
  \/ \E strategy \in Strategies, fv \in FillValues :
       handle_missing_values(strategy, fv)
  \/ \E mapping \in Mappings : rename_columns(mapping)
  \/ \E columns \in ColumnLists : select_columns(columns)
  \/ \E condition \in Conditions : filter_rows(condition)
  \/ \E m \in DtypeMappings : convert_types(m)
  \/ \E column \in NormColumns, method \in Methods : normalize_column(column, method)
  \/ \E name \in NewColumns, func \in Funcs : add_column(name, func)
  \/ \E g \in GroupBys, f \in AggFuncs : aggregate(g, f)
  \/ \E target \in Targets : load(target)
  \/ get_stats
  \/ \E w \in BOOLEAN : save_stats(w)
  \/ \E st \in StartTimes, now \in Clock : run(st, now)
  \/ \E x \in ExecTimes, now \in Clock : finish(x, now)

Spec == Init /\ [][Next]_vars

(***************************************************************************)
(* Properties                                                              *)
(***************************************************************************)
Transformations ==
  {"remove_duplicates", "handle_missing_values", "rename_columns",
   "select_columns", "filter_rows", "convert_types", "normalize_column",
   "add_column", "aggregate"}

\* a step of the specification is one method call; its outcome is last'
Called(ops) == calls' = calls + 1 /\ last'.op \in ops

Returned(ops) == Called(ops) /\ last'.exc = ""

Failed(ops) == Called(ops) /\ last'.exc # ""

\* C1: transformations_applied always equals the number of transformation
\* calls that returned without raising since the pipeline was constructed,
\* whatever number of rows or columns each of them changed.
C1_TransformationsCounted == stats.transformations_applied = nSuccess

\* two transformations returned, the second one changed no row
C1_Witness ==
  /\ nSuccess = 2
  /\ last.op = "rename_columns"
  /\ last.exc = ""
  /\ len(df) = stats.total_records

\* C2: while no Table is present every transformation method and load raise
\* ValueError and leave the Table absent and every PipelineStats field as
\* it was.
C2_NoTablePrecondition ==
  [][(~df.present /\ Called(Transformations \cup {"load"}))
       => (last'.exc = "ValueError" /\ df' = df /\ stats' = stats)]_vars

C2_Witness ==
  /\ ~df.present
  /\ last.op \in Transformations \cup {"load"}
  /\ last.exc = "ValueError"
  /\ calls = 2
  /\ stats.status = "running"

\* C3: stats.status only changes along pending -> running -> completed:
\* never backwards and never from pending straight to completed.
C3_StatusLifecycle ==
  [][stats'.status # stats.status
       => <<stats.status, stats'.status>> \in
            {<<"pending", "running">>, <<"running", "completed">>}]_vars

\* C4: when extract, a transformation, load or save_stats raises while
\* stats.status is running, stats.status becomes failed.
C4_FailedOnError ==
  [][(stats.status = "running"
        /\ Failed(Transformations \cup {"extract", "load", "save_stats"}))
       => stats'.status = "failed"]_vars

\* C5: a transformation call that raises on a pipeline that holds a Table
\* leaves the Table equal to its value before the call and changes no
\* PipelineStats field.
C5_FailedCallChangesNothing ==
  [][(df.present /\ Failed(Transformations)) => (df' = df /\ stats' = stats)]_vars

\* normalize_column raised on an unknown method name for a column that a
\* normalisation would have changed
C5_Witness ==
  /\ df.present
  /\ last = Call("normalize_column", "ValueError", "a", "bogus")
  /\ \E j \in ColIdx(df, "a") : minmax(df, j) # df

\* C6: handle_missing_values with an unknown strategy name, and
\* normalize_column on an existing column with an unknown method name, raise
\* for every Table, also for a Table without a missing value.
C6_UnknownNameRaises ==
  [][(/\ df.present
      /\ \/ /\ Called({"handle_missing_values"})
            /\ last'.a1 \notin {"drop", "fill", "forward_fill", "backward_fill"}
         \/ /\ Called({"normalize_column"})
            /\ ColIdx(df, last'.a1) # {}
            /\ last'.a2 \notin {"minmax", "zscore"})
       => last'.exc # ""]_vars

\* C7: normalize_column with a column name that is not a column of the Table
\* raises for every method value and is not counted as an applied
\* transformation.
C7_UnknownColumnRaises ==
  [][(df.present /\ Called({"normalize_column"}) /\ ColIdx(df, last'.a1) = {})
       => (/\ last'.exc # ""
           /\ stats'.transformations_applied = stats.transformations_applied)]_vars

\* C8: after a remove_duplicates call that returned, stats.duplicates_removed
\* is the row count before the call minus the row count after it.
C8_DuplicatesRemovedIsDelta ==
  [][Returned({"remove_duplicates"})
       => stats'.duplicates_removed = len(df) - len(df')]_vars

\* two equal rows were extracted and one of them was removed
C8_Witness ==
  /\ last.op = "remove_duplicates"
  /\ last.exc = ""
  /\ stats.total_records = 2
  /\ len(df) = 1
  /\ stats.duplicates_removed = 1

\* C9: duplicates_removed is the sum of the rows removed by all
\* remove_duplicates calls made on the pipeline, and missing_values_handled
\* likewise over all handle_missing_values calls.
C9_CountersCumulative ==
  /\ stats.duplicates_removed = dupSum
  /\ stats.missing_values_handled = mvhSum

\* C10: for each of the four strategies a handle_missing_values call that
\* returned records in missing_values_handled the number of missing cells
\* the Table held before the call.
C10_MissingCellsCounted ==
  [][(/\ Returned({"handle_missing_values"})
      /\ last'.a1 \in {"drop", "fill", "forward_fill", "backward_fill"})
       => stats'.missing_values_handled = missing_count(df)]_vars

\* C11: after a handle_missing_values call with strategy drop that returned,
\* missing_values_handled is the number of rows the call removed.
C11_DropCountsRows ==
  [][(Returned({"handle_missing_values"}) /\ last'.a1 = "drop")
       => stats'.missing_values_handled = len(df) - len(df')]_vars

\* a row with two missing cells was dropped: one row, two cells
C11_Witness ==
  /\ last = Call("handle_missing_values", "", "drop", "")
  /\ stats.total_records = 2
  /\ len(df) = 1
  /\ stats.missing_values_handled = 1
  /\ calls = 2

(***************************************************************************)
(* The DataTransformer methods on their own: SpecT hands one DataFrame to  *)
(* one static method of DataTransformer.  `last' then also holds the       *)
(* arguments and the DataFrame the method was handed.                      *)
(***************************************************************************)
\* cells of column a and of column b
ValuesT == <<{NaN, Num(1), Num(2), Num(3)}, {NaN, Num(1)}>>

RowsT == {r \in [1..Len(ColNames) -> UNION Range(ValuesT)] :
            \A j \in 1..Len(ColNames) : r[j] \in ValuesT[j]}

TablesT ==
  {Table(ColNames, InferDtypes(rws), rws) :
     rws \in UNION {[1..n -> RowsT] : n \in 0..(MaxRows + 1)}}

ColumnListsT == ColumnLists \cup {<<"a", "b">>}

\* a static call: method, exception ("" when it returned), arguments, input
CallT(op, exc, a1, a2, input) ==
  [op |-> op, exc |-> exc, a1 |-> a1, a2 |-> a2, input |-> input]

InitT ==
  /\ df \in TablesT
  /\ stats = PipelineStats
  /\ last = CallT("", "", "", "", NoTable)
  /\ calls = 0
  /\ nSuccess = 0
  /\ dupSum = 0
  /\ mvhSum = 0

\* df = DataTransformer.<op>(df, a1, a2) with result r
Static(op, r, a1, a2) ==
  /\ calls = 0
  /\ df' = r.df
  /\ last' = CallT(op, r.exc, a1, a2, df)
  /\ calls' = 1
  /\ UNCHANGED <<stats, nSuccess, dupSum, mvhSum>>

DT_remove_duplicates(subset, keep) ==
  Static("remove_duplicates", T_remove_duplicates(df, subset, keep), subset, keep)

DT_handle_missing_values(strategy, fill_value) ==
  Static("handle_missing_values",
         T_handle_missing_values(df, strategy, fill_value), strategy, fill_value)

DT_rename_columns(mapping) ==
  Static("rename_columns", T_rename_columns(df, mapping), mapping, "")

DT_select_columns(columns) ==
  Static("select_columns", T_select_columns(df, columns), columns, "")

DT_filter_rows(condition) ==
  Static("filter_rows", T_filter_rows(df, condition), condition, "")

DT_convert_data_types(dtype_mapping) ==
  Static("convert_data_types", T_convert_data_types(df, dtype_mapping),
         dtype_mapping, "")

DT_normalize_column(column, method) ==
  Static("normalize_column", T_normalize_column(df, column, method), column, method)

DT_add_calculated_column(column_name, func) ==
  \E r \in T_add_calculated_column(df, column_name, func) :
    Static("add_calculated_column", r, column_name, func)

DT_aggregate_data(group_by, agg_func) ==
  Static("aggregate_data", T_aggregate_data(df, group_by, agg_func),
         group_by, agg_func)

NextT ==
  \/ \E subset \in Subsets, keep \in KeepValues : DT_remove_duplicates(subset, keep)
  \/ \E strategy \in Strategies, fv \in FillValues :
       DT_handle_missing_values(strategy, fv)
  \/ \E mapping \in Mappings : DT_rename_columns(mapping)
  \/ \E columns \in ColumnListsT : DT_select_columns(columns)
  \/ \E condition \in Conditions : DT_filter_rows(condition)
  \/ \E m \in DtypeMappings : DT_convert_data_types(m)
  \/ \E column \in NormColumns, method \in Methods :
       DT_normalize_column(column, method)
  \/ \E name \in NewColumns, func \in Funcs : DT_add_calculated_column(name, func)
  \/ \E g \in GroupBys, f \in AggFuncs : DT_aggregate_data(g, f)

SpecT == InitT /\ [][NextT]_vars

\* the static call `op' returned
Done(op) == calls = 1 /\ last.op = op /\ last.exc = ""

\* C12: remove_duplicates is idempotent: applied again with the same subset and
\* keep policy to its own result, it returns that result, rows and order alike.
C12_RemoveDuplicatesIdempotent ==
  Done("remove_duplicates")
    => T_remove_duplicates(df, last.a1, last.a2) = Ok(df)

\* three equal rows under keep=first: two rows went, one is left
C12_Witness ==
  /\ Done("remove_duplicates")
  /\ last.a1.none
  /\ last.a2 = "first"
  /\ len(last.input) = 3
  /\ len(df) = 1

\* the rows of t that have no missing cell, in order
CompleteRows(t) == SelectSeq(t.rows, LAMBDA r : \A j \in 1..Len(r) : ~IsNaN(r[j]))

\* C13: handle_missing_values with strategy drop removes exactly the rows that
\* hold a missing cell: no missing cell is left, the row count does not grow,
\* and the rows without a missing cell survive in their order.
C13_DropRemovesIncompleteRows ==
  (Done("handle_missing_values") /\ last.a1 = "drop")
    => /\ missing_count(df) = 0
       /\ len(df) <= len(last.input)
       /\ df.rows = CompleteRows(last.input)
       /\ df.columns = last.input.columns

\* the middle row of three had one missing cell and went
C13_Witness ==
  /\ Done("handle_missing_values")
  /\ last.a1 = "drop"
  /\ len(last.input) = 3
  /\ ~RowHasNaN(last.input.rows[1])
  /\ RowHasNaN(last.input.rows[2])
  /\ ~IsNaN(last.input.rows[2][1])
  /\ ~RowHasNaN(last.input.rows[3])
  /\ len(df) = 2

\* C14: rename_columns with a mapping whose target is already the name of
\* another column overwrites that column: afterwards exactly one column has
\* the target name, and it holds the values of the renamed column.
C14_RenameOverwrites ==
  Done("rename_columns")
    => \A k \in 1..Len(last.a1) :
         LET source == last.a1[k][1]
             target == last.a1[k][2]
         IN  (/\ source # target
              /\ ColIdx(last.input, source) # {}
              /\ ColIdx(last.input, target) # {})
               => /\ Cardinality(ColIdx(df, target)) = 1
                  /\ \A j \in ColIdx(df, target), s \in ColIdx(last.input, source),
                        i \in 1..len(df) : df.rows[i][j] = last.input.rows[i][s]

\* the requested names that are columns of t, in the order of the request
Existing(t, columns) == SelectSeq(columns, LAMBDA c : ColIdx(t, c) # {})

\* C15: select_columns never raises; it returns the requested columns that are
\* columns of the Table, in the order of the request, each with its values and
\* with every row kept; a name that is no column is skipped; and the selection
\* of all the Table's columns keeps the row count and the column set.
C15_SelectColumns ==
  (calls = 1 /\ last.op = "select_columns")
    => /\ last.exc = ""
       /\ df.columns = Existing(last.input, last.a1)
       /\ len(df) = len(last.input)
       /\ \A i \in 1..len(df), k \in 1..Len(df.columns) :
            \A j \in ColIdx(last.input, df.columns[k]) :
              df.rows[i][k] = last.input.rows[i][j]
       /\ last.a1 = last.input.columns
            => Range(df.columns) = Range(last.input.columns)

\* b, a was requested of a table a, b with three rows, the last of them (3, 1)
C15_Witness ==
  /\ Done("select_columns")
  /\ last.a1 = <<"b", "a">>
  /\ len(last.input) = 3
  /\ last.input.rows[3] = <<Num(3), Num(1)>>
  /\ df.columns = <<"b", "a">>
  /\ df.rows[3] = <<Num(1), Num(3)>>

\* C16: filter_rows removes exactly the rows for which the predicate is false:
\* the result is the rows that satisfy it, cell for cell and in their order,
\* and the rows removed (input count minus output count) are the failing ones.
C16_FilterRows ==
  Done("filter_rows")
    => /\ \A i \in 1..len(df) : ConditionHolds(df.rows[i], last.a1)
       /\ df.rows = SelectSeq(last.input.rows,
                              LAMBDA r : ConditionHolds(r, last.a1))
       /\ df.columns = last.input.columns
       /\ len(last.input) - len(df) =
            Cardinality({i \in 1..len(last.input) :
                           ~ConditionHolds(last.input.rows[i], last.a1)})

\* a > 1 on rows with a = 2, 1, 3: the middle row went
C16_Witness ==
  /\ Done("filter_rows")
  /\ last.a1 = "gt1"
  /\ len(last.input) = 3
  /\ last.input.rows[1][1] = Num(2)
  /\ last.input.rows[2][1] = Num(1)
  /\ last.input.rows[3][1] = Num(3)
  /\ len(df) = 2
  /\ df.rows[2] = last.input.rows[3]

\* astype(dtype) succeeds on the columns of t labelled `column'
CanConvert(t, column, dtype) ==
  /\ dtype \in {"int", "float"}
  /\ dtype = "int" => \A i \in 1..len(t), j \in ColIdx(t, column) : ~IsNaN(t.rows[i][j])

\* column j of `after' is column j of `before' converted to dtype
Converted(before, after, j, dtype) ==
  /\ after.dtypes[j] = (IF dtype = "int" THEN "int64" ELSE "float64")
  /\ \A i \in 1..len(before) :
       after.rows[i][j] =
         (IF dtype = "int" THEN Trunc(before.rows[i][j]) ELSE before.rows[i][j])

\* column j of `after' has the type and the values it has in `before'
Untouched(before, after, j) ==
  /\ after.dtypes[j] = before.dtypes[j]
  /\ \A i \in 1..len(before) : after.rows[i][j] = before.rows[i][j]

\* C17: convert_types on a loaded Table returns normally and counts one applied
\* transformation, whatever the mapping; a column of the mapping whose
\* conversion fails keeps its values and type, and every column of the mapping
\* that can be converted is converted.
C17_ConvertBestEffort ==
  [][\A m \in DtypeMappings :
       (df.present /\ convert_types(m))
         => /\ last'.exc = ""
            /\ stats'.transformations_applied = stats.transformations_applied + 1
            /\ df'.columns = df.columns
            /\ len(df') = len(df)
            /\ \A k \in 1..Len(m) : \A j \in ColIdx(df, m[k][1]) :
                 IF CanConvert(df, m[k][1], m[k][2])
                 THEN Converted(df, df', j, m[k][2])
                 ELSE Untouched(df, df', j)]_vars

\* a: int, b: float on a table whose a has a missing cell and whose b has
\* none: a stayed as it was, b went from int64 to float64, one transformation
C17_Witness ==
  /\ last = Call("convert_types", "", "", "")
  /\ calls = 2
  /\ stats.transformations_applied = 1
  /\ len(df) = 2
  /\ IsNaN(df.rows[1][1])
  /\ df.rows[2] = <<Num(2), Num(1)>>
  /\ df.rows[1][2] = Num(1)
  /\ df.dtypes = <<"float64", "float64">>

\* the values (non-missing cells) of column j of t
ValuesOf(t, j) == {t.rows[i][j] : i \in 1..len(t)} \ {NaN}

\* q <= r
Leq(q, r) == q = r \/ Less(q, r)

\* C18: normalize_column with method minmax on a column whose values are not
\* all equal maps every value v to (v - min)/(max - min): the results lie in
\* [0,1], a minimum maps to 0, a maximum to 1, and the order of the values is
\* kept; a missing cell stays missing.
C18_MinMaxScales ==
  (Done("normalize_column") /\ last.a2 = "minmax")
    => \A j \in ColIdx(last.input, last.a1) :
         LET vals == ValuesOf(last.input, j)
             lo   == CHOOSE v \in vals : \A w \in vals : Leq(v, w)
             hi   == CHOOSE v \in vals : \A w \in vals : Leq(w, v)
             in(i)  == last.input.rows[i][j]
             out(i) == df.rows[i][j]
         IN  Cardinality(vals) > 1
               => /\ len(df) = len(last.input)
                  /\ \A i \in 1..len(df) :
                       IF IsNaN(in(i)) THEN IsNaN(out(i))
                       ELSE /\ Mul(out(i), Sub(hi, lo)) = Sub(in(i), lo)
                            /\ Leq(Num(0), out(i)) /\ Leq(out(i), Num(1))
                            /\ in(i) = lo => out(i) = Num(0)
                            /\ in(i) = hi => out(i) = Num(1)
                  /\ \A i, k \in 1..len(df) :
                       (~IsNaN(in(i)) /\ ~IsNaN(in(k)) /\ Less(in(i), in(k)))
                         => Less(out(i), out(k))

\* the column 1, 2, 3 became 0, 1/2, 1
C18_Witness ==
  /\ Done("normalize_column")
  /\ last.a1 = "a"
  /\ last.a2 = "minmax"
  /\ len(last.input) = 3
  /\ \A i \in 1..3 : last.input.rows[i][1] = Num(i)
  /\ df.rows[1][1] = Num(0)
  /\ df.rows[2][1] = Rat(1, 2)
  /\ df.rows[3][1] = Num(1)

\* C19: normalize_column with method minmax on a column whose values are all
\* equal (max == min) returns normally and leaves 0 in every cell of the column.
C19_MinMaxDegenerate ==
  (calls = 1 /\ last.op = "normalize_column" /\ last.a2 = "minmax")
    => \A j \in ColIdx(last.input, last.a1) :
         Cardinality(ValuesOf(last.input, j)) = 1
           => /\ last.exc = ""
              /\ len(df) = len(last.input)
              /\ \A i \in 1..len(df) : df.rows[i][j] = Num(0)

\* the column 2, 2, 2 became 0, 0, 0
C19_Witness ==
  /\ Done("normalize_column")
  /\ last.a1 = "a"
  /\ last.a2 = "minmax"
  /\ len(last.input) = 3
  /\ \A i \in 1..3 : last.input.rows[i][1] = Num(2)
  /\ \A i \in 1..3 : df.rows[i][1] = Num(0)

\* C20: aggregate_data yields exactly one row per distinct value found in the
\* group_by column of the input rows, the missing value included: every such
\* key appears exactly once, no other key appears, and the group_by column
\* leads the result.
C20_OneRowPerKey ==
  Done("aggregate_data")
    => \A kj \in ColIdx(last.input, last.a1[1]) :
         LET keys == {last.input.rows[i][kj] : i \in 1..len(last.input)}
         IN  /\ df.columns[1] = last.a1[1]
             /\ {df.rows[g][1] : g \in 1..len(df)} = keys
             /\ len(df) = Cardinality(keys)

(***************************************************************************)
(* DataValidator: Python values, the field validators and validate_row     *)
(***************************************************************************)
\* a Python value: its type and str(value) as a sequence of characters
StrV(chars) == [type |-> "str", text |-> chars]

IntV(chars) == [type |-> "int", text |-> chars]

None == [type |-> "NoneType", text |-> <<"N", "o", "n", "e">>]

Digits == {"0", "1", "2", "3", "4", "5", "6", "7", "8", "9"}

Letters ==
  {"a", "b", "c", "d", "e", "f", "g", "h", "i", "j", "k", "l", "m",
   "n", "o", "p", "q", "r", "s", "t", "u", "v", "w", "x", "y", "z",
   "A", "B", "C", "D", "E", "F", "G", "H", "I", "J", "K", "L", "M",
   "N", "O", "P", "Q", "R", "S", "T", "U", "V", "W", "X", "Y", "Z"}

\* [a-zA-Z0-9._%+-] and [a-zA-Z0-9.-]
LocalChars == Letters \cup Digits \cup {".", "_", "%", "+", "-"}

DomainChars == Letters \cup Digits \cup {".", "-"}

\* the pattern between ^ and $: local part, @, domain, a dot, two letters or more
EmailPattern(s) ==
  \E at \in {i \in 2..Len(s) : s[i] = "@"}, dot \in {i \in 1..Len(s) : s[i] = "."} :
    /\ at + 1 < dot
    /\ dot + 2 <= Len(s)
    /\ \A i \in 1..(at - 1) : s[i] \in LocalChars
    /\ \A i \in (at + 1)..(dot - 1) : s[i] \in DomainChars
    /\ \A i \in (dot + 1)..Len(s) : s[i] \in Letters

\* re.match(pattern, email) is not None; $ also matches before a final newline
validate_email(email) ==
  \/ EmailPattern(email)
  \/ /\ email # <<>>
     /\ email[Len(email)] = "\n"
     /\ EmailPattern(SubSeq(email, 1, Len(email) - 1))

DigitVal(c) == CHOOSE n \in 0..9 : <<"0", "1", "2", "3", "4", "5", "6", "7", "8", "9">>[n + 1] = c

\* the number a sequence of decimal digits denotes
RECURSIVE Decimal(_)
Decimal(s) ==
  IF s = <<>> THEN 0
  ELSE 10 * Decimal(SubSeq(s, 1, Len(s) - 1)) + DigitVal(s[Len(s)])

\* [sign] digits
IsInteger(s) ==
  LET body == IF s # <<>> /\ s[1] \in {"-", "+"} THEN Tail(s) ELSE s
  IN  body # <<>> /\ \A i \in 1..Len(body) : body[i] \in Digits

Signed(s) ==
  IF s[1] = "-" THEN -Decimal(Tail(s))
  ELSE IF s[1] = "+" THEN Decimal(Tail(s)) ELSE Decimal(s)

\* float(value): the exception it raises ("" when it returns) and the number.
\* An int of more than 309 digits is beyond the largest float (about 1.8e308):
\* OverflowError.  Strings are decimal integers or no number at all.
float(value) ==
  CASE value.type = "NoneType" -> [exc |-> "TypeError", num |-> 0]
    [] value.type = "int" ->
         IF Len(value.text) > 310
         THEN [exc |-> "OverflowError", num |-> 0]
         ELSE [exc |-> "", num |-> Signed(value.text)]
    [] OTHER ->
         IF IsInteger(value.text) THEN [exc |-> "", num |-> Signed(value.text)]
         ELSE [exc |-> "ValueError", num |-> 0]

\* min_val / max_val: None is [none |-> TRUE]
NoBound == [none |-> TRUE, v |-> 0]

Bound(n) == [none |-> FALSE, v |-> n]

\* the exception validate_numeric lets through ("" when it returns) and its result
validate_numeric(value, min_val, max_val) ==
  LET f == float(value) IN
  IF f.exc \in {"ValueError", "TypeError"} THEN [exc |-> "", ok |-> FALSE]
  ELSE IF f.exc # "" THEN [exc |-> f.exc, ok |-> FALSE]
  ELSE IF ~min_val.none /\ f.num < min_val.v THEN [exc |-> "", ok |-> FALSE]
  ELSE IF ~max_val.none /\ f.num > max_val.v THEN [exc |-> "", ok |-> FALSE]
  ELSE [exc |-> "", ok |-> TRUE]

IsLeap(y) == (y % 4 = 0 /\ y % 100 # 0) \/ y % 400 = 0

DaysIn(y, m) ==
  IF m = 2 THEN (IF IsLeap(y) THEN 29 ELSE 28)
  ELSE IF m \in {4, 6, 9, 11} THEN 30 ELSE 31

\* datetime.strptime(date_str, "%Y-%m-%d") returns: four digits of year, one
\* or two digits of month and of day, and the day exists
validate_date(date_str) ==
  \E ml \in 1..2, dl \in 1..2 :
    /\ Len(date_str) = 4 + 1 + ml + 1 + dl
    /\ date_str[5] = "-"
    /\ date_str[6 + ml] = "-"
    /\ \A i \in (1..4) \cup (6..(5 + ml)) \cup ((7 + ml)..Len(date_str)) :
         date_str[i] \in Digits
    /\ LET y == Decimal(SubSeq(date_str, 1, 4))
           m == Decimal(SubSeq(date_str, 6, 5 + ml))
           d == Decimal(SubSeq(date_str, 7 + ml, Len(date_str)))
       IN  /\ y >= 1
           /\ m \in 1..12
           /\ d \in 1..DaysIn(y, m)

\* the values a row holds
Huge == IntV([i \in 1..401 |-> IF i = 1 THEN "1" ELSE "0"])

ValuesV ==
  {StrV(<<"a", "@", "b", ".", "c", "o">>),
   StrV(<<"a", "b">>),
   StrV(<<"2", "0", "2", "4", "-", "0", "2", "-", "2", "9">>),
   IntV(<<"2", "5">>),
   IntV(<<"-", "5">>),
   None,
   Huge}

FieldsV == <<"email", "age">>

\* a row (dict) as the sequence of its items
Absent == [type |-> "absent", text |-> <<>>]

RowOf(vals) ==
  LET F[k \in 0..Len(FieldsV)] ==
        IF k = 0 THEN <<>>
        ELSE IF vals[k] = Absent THEN F[k - 1]
        ELSE Append(F[k - 1], <<FieldsV[k], vals[k]>>)
  IN  F[Len(FieldsV)]

RowsV == {RowOf(vals) : vals \in [1..Len(FieldsV) -> ValuesV \cup {Absent}]}

\* field in row
In(field, row) == \E k \in 1..Len(row) : row[k][1] = field

\* row[field]
Get(row, field) == row[CHOOSE k \in 1..Len(row) : row[k][1] = field][2]

\* the rules of one field: type is "" when the key is not there, email,
\* numeric and date are rules.get(...), min and max are rules.get("min"/"max")
RulesV ==
  [type : {"", "str", "int"}, email : BOOLEAN, numeric : BOOLEAN,
   min : {NoBound}, max : {NoBound}, date : BOOLEAN]
  \cup [type : {""}, email : {FALSE}, numeric : {TRUE},
        min : {Bound(0)}, max : {Bound(150)}, date : {FALSE}]

\* a schema (dict) as the sequence of its items: one or two fields
SchemasV ==
  {<< <<f, r>> >> : f \in Range(FieldsV), r \in RulesV}
  \cup {s \in {<< <<f, r>>, <<g, q>> >> :
                  f \in Range(FieldsV), g \in Range(FieldsV),
                  r \in RulesV, q \in RulesV} : s[1][1] # s[2][1]}

\* f"{expected_type}" / f"{type(value)}"
ClassName(type) == <<"<class '", type, "'>">>

\* the error messages, each as the sequence of its parts
MissingMsg(field) == <<"Campo obrigatório ausente: ", field>>

TypeMsg(field, expected, value) ==
  <<"Campo ", field, ": tipo esperado ">> \o ClassName(expected)
    \o <<", recebido ">> \o ClassName(value.type)

EmailMsg(field) == <<"Campo ", field, ": email inválido">>

NumericMsg(field) == <<"Campo ", field, ": valor numérico inválido">>

DateMsg(field) ==
  <<"Campo ", field, ": data inválida (formato esperado: ", "%Y-%m-%d", ")">>

\* variant: the rules of a field stop at its first error
field_errors_first(field, value, rules) ==
  LET n == validate_numeric(value, rules.min, rules.max)
      e_type == IF rules.type # "" /\ value.type # rules.type
                THEN <<TypeMsg(field, rules.type, value)>> ELSE <<>>
      e_email == IF rules.email /\ ~validate_email(value.text)
                 THEN <<EmailMsg(field)>> ELSE <<>>
      e_numeric == IF rules.numeric /\ ~n.ok THEN <<NumericMsg(field)>> ELSE <<>>
      e_date == IF rules.date /\ ~validate_date(value.text)
                THEN <<DateMsg(field)>> ELSE <<>>
      all == e_type \o e_email \o e_numeric \o e_date
  IN  IF rules.numeric /\ n.exc # "" /\ e_type \o e_email = <<>>
      THEN [exc |-> n.exc, errors |-> <<>>]
      ELSE [exc |-> "", errors |-> IF all = <<>> THEN <<>> ELSE <<Head(all)>>]

\* the body of the loop for a field the row holds: type, email, numeric, date
field_errors(field, value, rules) ==
  LET n == validate_numeric(value, rules.min, rules.max)
      e_type == IF rules.type # "" /\ value.type # rules.type
                THEN <<TypeMsg(field, rules.type, value)>> ELSE <<>>
      e_email == IF rules.email /\ ~validate_email(value.text)
                 THEN <<EmailMsg(field)>> ELSE <<>>
      e_numeric == IF rules.numeric /\ ~n.ok THEN <<NumericMsg(field)>> ELSE <<>>
      e_date == IF rules.date /\ ~validate_date(value.text)
                THEN <<DateMsg(field)>> ELSE <<>>
  IN  IF rules.numeric /\ n.exc # ""
      THEN [exc |-> n.exc, errors |-> e_type \o e_email]
      ELSE [exc |-> "", errors |-> e_type \o e_email \o e_numeric \o e_date]

\* for field, rules in schema.items(): the errors list, or the exception
RECURSIVE schema_errors(_, _)
schema_errors(row, schema) ==
  IF schema = <<>> THEN [exc |-> "", errors |-> <<>>]
  ELSE LET field == Head(schema)[1]
           rules == Head(schema)[2]
           here  == IF ~In(field, row)
                    THEN [exc |-> "", errors |-> <<MissingMsg(field)>>]
                    ELSE field_errors(field, Get(row, field), rules)
           rest  == schema_errors(row, Tail(schema))
       IN  IF here.exc # "" THEN here
           ELSE [exc |-> rest.exc, errors |-> here.errors \o rest.errors]

\* ValidationResult, or the exception validate_row lets through
validate_row(row, schema) ==
  LET r == schema_errors(row, schema) IN
  IF r.exc # ""
  THEN [exc |-> r.exc, is_valid |-> FALSE, errors |-> <<>>, warnings |-> <<>>]
  ELSE [exc |-> "", is_valid |-> Len(r.errors) = 0, errors |-> r.errors,
        warnings |-> <<>>]

\* SpecV hands one row and one schema to DataValidator.validate_row
CallV(op, row, schema, result) ==
  [op |-> op, row |-> row, schema |-> schema, result |-> result]

InitV ==
  /\ df = NoTable
  /\ stats = PipelineStats
  /\ last \in {CallV("", row, schema, validate_row(<<>>, <<>>)) :
                 row \in RowsV, schema \in SchemasV}
  /\ calls = 0
  /\ nSuccess = 0
  /\ dupSum = 0
  /\ mvhSum = 0

\* result = DataValidator.validate_row(row, schema)
DV_validate_row ==
  /\ calls = 0
  /\ last' = CallV("validate_row", last.row, last.schema,
                   validate_row(last.row, last.schema))
  /\ calls' = 1
  /\ UNCHANGED <<df, stats, nSuccess, dupSum, mvhSum>>

NextV == DV_validate_row

SpecV == InitV /\ [][NextV]_vars

\* the validate_row call is over (it returned or it raised)
Validated == calls = 1 /\ last.op = "validate_row"

\* the positions of the error messages that name `field'
Naming(errors, field) == {e \in 1..Len(errors) : errors[e][2] = field}

\* C21: validate_row on a row that lacks a field declared in the schema always
\* returns is_valid = False with an error message that names the missing
\* field, whatever the other fields of the row and of the schema are; no rule
\* of the missing field is evaluated (that message is the field's only one).
C21_MissingFieldInvalid ==
  Validated
    => \A k \in 1..Len(last.schema) :
         ~In(last.schema[k][1], last.row)
           => /\ last.result.exc = ""
              /\ ~last.result.is_valid
              /\ \E e \in Naming(last.result.errors, last.schema[k][1]) :
                   last.result.errors[e] = MissingMsg(last.schema[k][1])
              /\ Cardinality(Naming(last.result.errors, last.schema[k][1])) = 1

\* C22: an extract that returned leaves a Table present and total_records at
\* that Table's row count, whatever the state before; and a step from no Table
\* to a Table present is always an extract that returned.
C22_ExtractEstablishesTable ==
  [][/\ Returned({"extract"})
          => (df'.present /\ stats'.total_records = len(df'))
     /\ (~df.present /\ df'.present) => Returned({"extract"})]_vars

\* two equal rows were extracted, one was removed as a duplicate, and a second
\* extract brought a Table of one row: total_records went from 2 to 1
C22_Witness ==
  /\ last = Call("extract", "", "", "")
  /\ calls = 3
  /\ stats.duplicates_removed = 1
  /\ df.present
  /\ len(df) = 1
  /\ stats.total_records = 1

\* C23: load, get_stats and save_stats, returning or raising, and an extract
\* that raises, leave the Table and every PipelineStats field as they were.
C23_ReadOnlyCalls ==
  [][(Called({"load", "get_stats", "save_stats"}) \/ Failed({"extract"}))
       => (df' = df /\ stats' = stats)]_vars

\* a Table of two rows was extracted and transformed once, then written by load
C23_Witness ==
  /\ last = Call("load", "", "", "")
  /\ calls = 3
  /\ df.present
  /\ len(df) = 2
  /\ stats.total_records = 2
  /\ stats.transformations_applied = 1

\* the counters of PipelineStats
Counters(st) ==
  <<st.total_records, st.valid_records, st.invalid_records,
    st.duplicates_removed, st.missing_values_handled, st.transformations_applied>>

\* C24: run sets status to running and start_time to the supplied timestamp,
\* or to the current one when none is supplied; finish sets status to
\* completed, end_time to the current timestamp and execution_time to the
\* supplied duration, leaving it as it was when none is supplied; neither
\* changes the Table, a counter or any other field.
C24_RunFinish ==
  [][/\ \A start_time \in StartTimes, now \in Clock :
          run(start_time, now)
            => /\ stats'.status = "running"
               /\ stats'.start_time = (IF start_time.none THEN now ELSE start_time.v)
               /\ stats'.end_time = stats.end_time
               /\ stats'.execution_time = stats.execution_time
               /\ Counters(stats') = Counters(stats)
               /\ df' = df
               /\ last'.exc = ""
     /\ \A execution_time \in ExecTimes, now \in Clock :
          finish(execution_time, now)
            => /\ stats'.status = "completed"
               /\ stats'.end_time = now
               /\ stats'.execution_time =
                    (IF execution_time.none THEN stats.execution_time
                     ELSE execution_time.v)
               /\ stats'.start_time = stats.start_time
               /\ Counters(stats') = Counters(stats)
               /\ df' = df
               /\ last'.exc = ""]_vars

\* run without a timestamp, finish(5), then finish without a duration: the
\* duration 5 is still there
C24_Witness ==
  /\ last = Call("finish", "", "", "")
  /\ calls = 3
  /\ stats.status = "completed"
  /\ stats.start_time = "t1"
  /\ stats.end_time = "t2"
  /\ stats.execution_time = 5
  /\ ~df.present

\* the input rows that are equal to row i on the subset columns (on all
\* columns when there is no subset): the duplicate group of row i
Group(t, subset, i) ==
  LET on == IF subset.none THEN 1..Len(t.columns)
            ELSE {j \in 1..Len(t.columns) : t.columns[j] \in Range(subset.cols)}
  IN  {k \in 1..len(t) : \A j \in on : t.rows[k][j] = t.rows[i][j]}

\* the rows of a group that the keep policy lets through
Kept(group, keep) ==
  CASE keep = "first" -> {k \in group : \A m \in group : k <= m}
    [] keep = "last"  -> {k \in group : \A m \in group : k >= m}
    [] OTHER          -> IF Cardinality(group) = 1 THEN group ELSE {}

\* C25: remove_duplicates keeps, of every duplicate group, the first row for
\* keep=first, the last row for keep=last and no row of a group of two or more
\* for keep=False (the policy `none'); a unique row always survives and the
\* survivors keep their order.
C25_KeepPolicy ==
  (Done("remove_duplicates") /\ last.a2 \in {"first", "last", "False"})
    => LET t == last.input
           survivors == {i \in 1..len(t) : i \in Kept(Group(t, last.a1, i), last.a2)}
       IN  /\ len(df) = Cardinality(survivors)
           /\ \A i \in survivors :
                df.rows[Cardinality({k \in survivors : k <= i})] = t.rows[i]
           /\ \A i \in 1..len(t) : Group(t, last.a1, i) = {i} => i \in survivors

\* rows (1,1), (2,1), (1,NaN) with subset a and keep=last: the first row went
C25_Witness ==
  /\ Done("remove_duplicates")
  /\ last.a2 = "last"
  /\ ~last.a1.none
  /\ last.a1.cols = <<"a">>
  /\ last.input.rows = <<<<Num(1), Num(1)>>, <<Num(2), Num(1)>>, <<Num(1), NaN>>>>
  /\ df.rows = <<<<Num(2), Num(1)>>, <<Num(1), NaN>>>>

\* C26: the column names of the pipeline's Table are pairwise distinct in
\* every state reached from Tables extracted with distinct names, also after
\* rename_columns onto an existing name and select_columns with a name
\* requested twice.
C26_ColumnNamesDistinct ==
  df.present
    => \A j, k \in 1..Len(df.columns) : df.columns[j] = df.columns[k] => j = k

\* the rows of t on the side `strategy' fills from (above for forward_fill,
\* below for backward_fill) of row i whose cell in column j is not missing
Donors(t, i, j, strategy) ==
  {k \in 1..len(t) :
     /\ ~IsNaN(t.rows[k][j])
     /\ IF strategy = "forward_fill" THEN k < i ELSE k > i}

\* the donor nearest to row i
Nearest(donors, i) ==
  CHOOSE k \in donors : \A m \in donors : Abs(k - i) <= Abs(m - i)

KindRank(msg) ==
  CASE msg[1] = "Campo obrigatório ausente: " -> 0
    [] msg[3] = ": tipo esperado " -> 1
    [] msg[3] = ": email inválido" -> 2
    [] msg[3] = ": valor numérico inválido" -> 3
    [] OTHER -> 4

\* the position in the schema of the field an error message names
FieldPos(schema, msg) == CHOOSE k \in 1..Len(schema) : schema[k][1] = msg[2]

\* the pairs <<position of a schema field, rank>> that must be reported
Failing(row, schema) ==
  {p \in (1..Len(schema)) \X (0..4) :
     LET field == schema[p[1]][1]
         rules == schema[p[1]][2]
     IN  IF ~In(field, row) THEN p[2] = 0
         ELSE LET value == Get(row, field) IN
              CASE p[2] = 0 -> FALSE
                [] p[2] = 1 -> rules.type # "" /\ value.type # rules.type
                [] p[2] = 2 -> rules.email /\ ~validate_email(value.text)
                [] p[2] = 3 -> rules.numeric
                                 /\ ~validate_numeric(value, rules.min, rules.max).ok
                [] OTHER -> rules.date /\ ~validate_date(value.text)}

C29_TransformationsFrame ==
  /\ [](stats.valid_records = 0 /\ stats.invalid_records = 0)
  /\ [][Called(Transformations)
          => /\ stats'.status = stats.status
             /\ stats'.start_time = stats.start_time
             /\ stats'.end_time = stats.end_time
             /\ stats'.execution_time = stats.execution_time
             /\ stats'.total_records = stats.total_records
             /\ stats'.valid_records = stats.valid_records
             /\ stats'.invalid_records = stats.invalid_records]_vars

\* two rows were extracted, run was called with a timestamp, and filter_rows
\* removed one row: total_records is still 2, status is still running
C29_Witness ==
  /\ last = Call("filter_rows", "", "", "")
  /\ calls = 3
  /\ len(df) = 1
  /\ stats.total_records = 2
  /\ stats.status = "running"
  /\ stats.start_time = "t0"
  /\ stats.valid_records = 0

\* C30: an extract that returned changes, of PipelineStats, total_records
\* only: transformations_applied, duplicates_removed, missing_values_handled,
\* status, start_time, end_time and execution_time are what they were, so the
\* counters of the Table held before carry over to the new one.
C30_ReExtractKeepsCounters ==
  [][Returned({"extract"})
       => /\ stats'.transformations_applied = stats.transformations_applied
          /\ stats'.duplicates_removed = stats.duplicates_removed
          /\ stats'.missing_values_handled = stats.missing_values_handled
          /\ stats'.status = stats.status
          /\ stats'.start_time = stats.start_time
          /\ stats'.end_time = stats.end_time
          /\ stats'.execution_time = stats.execution_time]_vars

\* a row was dropped for its missing cells, then a Table of two rows was
\* extracted: the new Table comes with the counters of the old one
C30_Witness ==
  /\ last = Call("extract", "", "", "")
  /\ calls = 3
  /\ stats.missing_values_handled = 1
  /\ stats.transformations_applied = 1
  /\ len(df) = 2
  /\ stats.total_records = 2

====
